---- MODULE Spec2Model ----
(***************************************************************************)
(* The command orchestrators of filemanager-plugin.                        *)
(*                                                                         *)
(*   core    handleCommand(commands, globalOptions) with the fingerprint   *)
(*           cache (src/unnamed/part_000)                                  *)
(*   plugin  webpackPlugin.handleCommand(commands), with the progress      *)
(*           counter and no cache (src/src/webpackPlugin.js)               *)
(*                                                                         *)
(* A run of handleCommand is an async function: it advances until an       *)
(* await, hands a job to the executor (commander[command]) or the whole    *)
(* item list to the dispatcher (masterCluster), and goes on when that      *)
(* call resolves or ends when it rejects.  JavaScript values are written  *)
(* as tokens: "absent" is a missing key (undefined), "0" "2" numbers,      *)
(* "true" "false" booleans.                                                *)
(*                                                                         *)
(*   Spec         one run at a time, over well-formed batches              *)
(*   EdgeSpec     the same, over batches with null entries and with a job  *)
(*                written in both key orders                               *)
(*   HookSpec     the plugin from its constructor on: apply, the hooks     *)
(*                the compiler fires, the three kinds of hook callback     *)
(*   OverlapSpec  two runs of the cached orchestrator that overlap         *)
(***************************************************************************)
EXTENDS Naturals, Sequences, FiniteSets

\* ------------------------------------------------------------- bounds
\* longest item list of a command
MaxItems == 2
\* most entries of one batch
MaxCmds == 2
\* the plugin starts no further run once the progress counter is here
MaxSpeed == 2

\* ------------------------------------------------------------- inputs
COMMAND_LIST == {"copy", "move", "del", "zip", "unzip", "rename"}

\* keys a batch may carry: two recognized commands and one that is not
BatchKeys == {"copy", "del", "chmod"}

\* job descriptors: the own properties of an object literal, in insertion
\* order, as <<key, value>> pairs
JobA == << <<"source", "a">> >>
JobB == << <<"source", "b">> >>
JobU == << <<"source", "a">>, <<"destination", "undefined">> >>
Jobs == {JobA, JobB, JobU}

SeqsUpTo(S, n) == UNION {[1..k -> S] : k \in 0..n}

\* the item lists of copy: lists of distinct jobs
ItemLists ==
    {l \in SeqsUpTo(Jobs, MaxItems) :
        \A i, j \in 1..Len(l) : i # j => l[i] # l[j]}

NoOptions == [parallel |-> "absent", cache |-> "absent", progress |-> "absent"]

\* the options of one command
CommandOptions ==
    { NoOptions,
      [NoOptions EXCEPT !.cache = "false"],
      [NoOptions EXCEPT !.cache = "true"],
      [NoOptions EXCEPT !.parallel = "2"],
      [NoOptions EXCEPT !.parallel = "0"] }

\* the globalOptions argument of the cached orchestrator
GlobalOptions ==
    { NoOptions,
      [NoOptions EXCEPT !.cache = "false"],
      [NoOptions EXCEPT !.parallel = "2"] }

\* this.options.options of the plugin
PluginOptions ==
    [parallel : {"absent", "2"}, cache : {"absent"},
     progress : {"absent", "true"}]

\* the entries of a batch: copy with every item list and every option set,
\* del with no item or the same job twice and no options, and an unknown key;
\* value tells an entry that is an object from one that is null
Entries ==
    [key : {"copy"}, value : {"object"}, items : ItemLists,
     options : CommandOptions]
      \cup [key : {"del"}, value : {"object"}, items : {<<>>, <<JobA, JobA>>},
            options : {NoOptions}]
      \cup [key : {"chmod"}, value : {"object"}, items : {<<JobA>>},
            options : {NoOptions}]

\* an object has each key once; for-in visits the keys in insertion order
RECURSIVE BatchesOver(_, _)
BatchesOver(keys, n) ==
    IF n = 0 THEN {<<>>}
    ELSE {<<>>} \cup
         UNION {{<<e>> \o b : b \in BatchesOver(keys \ {e.key}, n - 1)} :
                e \in {x \in Entries : x.key \in keys}}

Batches == BatchesOver(BatchKeys, MaxCmds)

\* one job written with its two keys in either order
JobAB == << <<"source", "a">>, <<"destination", "b">> >>
JobBA == << <<"destination", "b">>, <<"source", "a">> >>

\* { command: null }: commands[command] || {} and the defaults of lines 17-18
\* give the cached orchestrator no items and no options for it
NullEntry(k) ==
    [key |-> k, value |-> "null", items |-> <<>>, options |-> NoOptions]

\* batches with a job in both key orders and with entries that are null
EdgeEntries ==
    [key : {"copy"}, value : {"object"},
     items : SeqsUpTo({JobAB, JobBA}, MaxItems), options : {NoOptions}]
      \cup [key : {"del"}, value : {"object"}, items : {<<JobA>>},
            options : {NoOptions}]
      \cup [key : {"chmod"}, value : {"object"}, items : {<<JobA>>},
            options : {NoOptions}]
      \cup {NullEntry("copy"), NullEntry("del")}

\* the batches of at most n of the given entries, each key once
RECURSIVE BatchesFrom(_, _, _)
BatchesFrom(entries, keys, n) ==
    IF n = 0 THEN {<<>>}
    ELSE {<<>>} \cup
         UNION {{<<e>> \o b : b \in BatchesFrom(entries, keys \ {e.key}, n - 1)} :
                e \in {x \in entries : x.key \in keys}}

EdgeBatches == BatchesFrom(EdgeEntries, BatchKeys, MaxCmds)

\* ----------------------------------------------- inputs: the plugin's hooks
BUILTIN_EVENTS_MAP ==
    [start |-> [hookType |-> "tapAsync", hookName |-> "beforeRun",
                registerName |-> <<"REGISTER_", "beforeRun">>],
     end |-> [hookType |-> "tapAsync", hookName |-> "afterEmit",
              registerName |-> <<"REGISTER_", "afterEmit">>]]

BUILTIN_EVENT_NAMES == DOMAIN BUILTIN_EVENTS_MAP

\* the keys of the constructor's hookTypesMap
HookTypes == {"tap", "tapPromise", "tapAsync"}

\* the hooks the compiler has
CompilerHooks == {"beforeRun", "afterEmit"}

\* the commands of a hook: copy with up to MaxItems jobs, a del, an unknown key
HookEntries ==
    [key : {"copy"}, value : {"object"}, items : SeqsUpTo({JobA}, MaxItems),
     options : {NoOptions}]
      \cup [key : {"del"}, value : {"object"}, items : {<<JobB>>},
            options : {NoOptions}]
      \cup [key : {"chmod"}, value : {"object"}, items : {<<JobA>>},
            options : {NoOptions}]

HookBatches == BatchesFrom(HookEntries, BatchKeys, MaxCmds)

OneCopy ==
    <<[key |-> "copy", value |-> "object", items |-> <<JobA>>,
       options |-> NoOptions]>>

\* customHooks items: every supported type with every batch, a type the
\* plugin does not know, a hook the compiler does not have, and an item
\* that brings its own registerName
CustomHooks ==
    [hookType : HookTypes, hookName : {"afterEmit"},
     registerName : {<<>>}, commands : HookBatches]
      \cup {[hookType |-> "tapFoo", hookName |-> "afterEmit",
              registerName |-> <<>>, commands |-> OneCopy],
             [hookType |-> "tapAsync", hookName |-> "noSuchHook",
              registerName |-> <<>>, commands |-> OneCopy],
             [hookType |-> "tapPromise", hookName |-> "beforeRun",
              registerName |-> <<"mine">>, commands |-> OneCopy]}

\* what may follow the first item of customHooks
MoreCustomHooks ==
    {h \in CustomHooks : h.commands = OneCopy}

\* events: the keys in insertion order, each with commands or with null
EventItems ==
    [event : {"start", "end", "done"}, value : {"object"},
     commands : {OneCopy}]
      \cup [event : {"start", "end"}, value : {"null"}, commands : {<<>>}]

EventLists ==
    {<<>>} \cup {<<e>> : e \in EventItems}
      \cup {l \in {<<e, f>> : e, f \in EventItems} :
                l[1].event # l[2].event}

\* this.options without its options key
PluginConfigs ==
    [customHooks : {<<>>}, events : EventLists]
      \cup [customHooks : {<<h>> : h \in CustomHooks}, events : {<<>>}]
      \cup [customHooks : {<<h, g>> : h \in CustomHooks, g \in MoreCustomHooks},
            events : {<<>>, <<CHOOSE e \in EventItems :
                                e.event = "start" /\ e.value = "object">>}]

\* ------------------------------------------------------------- helpers
Truthy(v) == v \notin {"absent", "false", "0"}

\* Object.assign({}, globalOptions, options)
Merge(g, o) ==
    [k \in DOMAIN g |-> IF o[k] # "absent" THEN o[k] ELSE g[k]]

\* const { cache: optCache = true } = opts
OptCache(opts) == IF opts.cache = "absent" THEN TRUE ELSE Truthy(opts.cache)

\* JSON.stringify of one object: the properties in insertion order, those
\* whose value is undefined left out
RECURSIVE StringifyJob(_)
StringifyJob(job) ==
    IF job = <<>> THEN <<>>
    ELSE IF Head(job)[2] = "undefined" THEN StringifyJob(Tail(job))
    ELSE <<Head(job)>> \o StringifyJob(Tail(job))

\* JSON.stringify(items): the serialized items, in list order
Stringify(items) == [i \in 1..Len(items) |-> StringifyJob(items[i])]

\* every key of the batch taken for a command
IsCommandAny(k) == TRUE

IsCommand(k) == k \in COMMAND_LIST

\* cacheSingle()[command]: <<>> when the cache has no such key
CacheGet(c, k) == IF k \in DOMAIN c THEN <<c[k]>> ELSE <<>>

\* a store replaced by one that holds the written entry alone
CacheSetAlone(c, k, content) == [x \in {k} |-> content]

CacheSet(c, k, content) ==
    [x \in DOMAIN c \cup {k} |-> IF x = k THEN content ELSE c[x]]

\* the skip condition without the cache comparison
ShouldSkipOnlyEmpty(optCache, cached, content, items) == Len(items) = 0

\* the skip condition with the cache flag left out
ShouldSkipAnyCache(optCache, cached, content, items) ==
    cached = <<content>> \/ Len(items) = 0

\* the skip condition without the test for an empty list
ShouldSkipOnlyCache(optCache, cached, content, items) ==
    optCache /\ cached = <<content>>

\* the skip condition of the cached orchestrator
ShouldSkip(optCache, cached, content, items) ==
    (optCache /\ cached = <<content>>) \/ Len(items) = 0

\* the mode taken from the merged options
UseParallelMerged(g, opts) == Truthy(opts.parallel)

\* if (parallel), with parallel taken from globalOptions
UseParallel(g, opts) == Truthy(g.parallel)

\* the cache write whatever the cache flag
CacheWriteAlways(c, k, content, optCache) == CacheSet(c, k, content)

\* optCache && (cacheSingle()[command] = content)
CacheWrite(c, k, content, optCache) ==
    IF optCache THEN CacheSet(c, k, content) ELSE c

\* the items from the last to the first
ItemAtReversed(items, j) == items[Len(items) + 1 - j]

\* for (const item of items): the items in list order
ItemAt(items, j) == items[j]

\* a for-of loop that stops after any item
MoreItemsNever(j, items) == FALSE

\* the for-of loop goes on while items are left
MoreItems(j, items) == j < Len(items)

\* the entries from the last key to the first
EntryAtReversed(b, i) == b[Len(b) + 1 - i]

\* for (const command in commands): the entries in key order
EntryAt(b, i) == b[i]

\* a rejection that is caught and dropped: on to the next command
AfterRejectSwallowed(i) == [pc |-> "loop", idx |-> i + 1, status |-> "running"]

\* a rejected await throws, handleCommand has no try/catch: the run ends
\* and its promise rejects
AfterReject(i) == [pc |-> "done", idx |-> i, status |-> "failed"]

\* what masterCluster resolves with: the number of completed jobs
MasterClusterResult(jobs) == Len(jobs)

\* a progress bar that is never told
SetSpeedNever(p, g, n) == p

\* a progress bar that is told whatever the progress option says
SetSpeedAlways(p, g, n) == p + n

\* progress && this.progress.setSpeed(n)
SetSpeed(p, g, n) == IF Truthy(g.progress) THEN p + n ELSE p

\* ------------------------------------------------------------- state
VARIABLES
    impl,      \* which orchestrator this process runs: "core" or "plugin"
    cache,     \* cacheSingle(): command name -> fingerprint
    speed,     \* sum of the increments given to this.progress.setSpeed
    batch,     \* the commands argument of the run
    gopts,     \* globalOptions (core: argument; plugin: this.options.options)
    pc,        \* "idle", "loop", "exec", "dispatch", "done"
    idx,       \* position of the for-in loop in the batch
    item,      \* position of the for-of loop in the item list
    calls,     \* the executor and dispatcher calls of the run, in call order
    outcome,   \* what became of each entry visited so far
    status,    \* "none", "running", "ok", "failed"
    rerun,     \* the run repeats the arguments of a run that just succeeded
    cache0,    \* the cache when the run started
    lastItems, \* per command, the item list of its latest run that was not
               \* skipped, succeeded and had the cache enabled
    speed0,    \* the progress counter when the run started
    config,    \* the plugin: this.options (customHooks, events)
    hooks,     \* the plugin: what translateHooks returned to apply
    registered,\* the plugin: the hooks apply tapped on the compiler
    total,     \* the plugin: the total apply gave to the progress bar
    cur,       \* the plugin: the hook whose callback is running, or 0
    host,      \* the plugin: what the compiler knows of that callback
    fired,     \* the plugin: how often the compiler has fired each hook
    succeeded, \* the plugin: the hooks with a run that resolved
    passes     \* overlapping runs of the cached orchestrator

hookVars ==
    <<config, hooks, registered, total, cur, host, fired, succeeded>>

vars == <<impl, cache, speed, batch, gopts, pc, idx, item, calls, outcome,
          status, rerun, cache0, lastItems, speed0, hookVars, passes>>

EmptyCache == [k \in {} |-> <<>>]

\* no plugin object with hooks in this process
NoPlugin ==
    /\ config = <<>>
    /\ hooks = <<>>
    /\ registered = {}
    /\ total = 0
    /\ cur = 0
    /\ host = "none"
    /\ fired = <<>>
    /\ succeeded = {}

Init ==
    /\ impl \in {"core", "plugin"}
    /\ cache = EmptyCache
    /\ speed = 0
    /\ batch = <<>>
    /\ gopts \in IF impl = "core" THEN {NoOptions} ELSE PluginOptions
    /\ pc = "idle"
    /\ idx = 1
    /\ item = 0
    /\ calls = <<>>
    /\ outcome = <<>>
    /\ status = "none"
    /\ rerun = FALSE
    /\ cache0 = EmptyCache
    /\ lastItems = EmptyCache
    /\ speed0 = 0
    /\ NoPlugin
    /\ passes = <<>>

Cur == EntryAt(batch, idx)
Opts == Merge(gopts, Cur.options)
Content == Stringify(Cur.items)

ExecCall(cmd, job, opts) ==
    [kind |-> "exec", cmd |-> cmd, jobs |-> <<job>>, opts |-> opts,
     cpu |-> "absent", st |-> "inflight"]

DispatchCall(cmd, jobs, cpu, opts) ==
    [kind |-> "dispatch", cmd |-> cmd, jobs |-> jobs, opts |-> opts,
     cpu |-> cpu, st |-> "inflight"]

Settle(cs, st) == [cs EXCEPT ![Len(cs)].st = st]

\* ------------------------------------------------ the cached orchestrator
StartRun(b, g, again) ==
    /\ batch' = b
    /\ gopts' = g
    /\ pc' = "loop"
    /\ idx' = 1
    /\ item' = 0
    /\ calls' = <<>>
    /\ outcome' = <<>>
    /\ status' = "running"
    /\ rerun' = again
    /\ cache0' = cache
    /\ speed0' = speed
    /\ UNCHANGED <<impl, cache, speed, lastItems>>

\* handleCommand(commands, globalOptions) is called
Call ==
    /\ impl = "core"
    /\ pc = "idle"
    /\ \E b \in Batches, g \in GlobalOptions : StartRun(b, g, FALSE)
    /\ UNCHANGED <<hookVars, passes>>

\* the caller calls again with the arguments of the run that just succeeded
Rerun ==
    /\ impl = "core"
    /\ pc = "done"
    /\ status = "ok"
    /\ ~rerun
    /\ StartRun(batch, gopts, TRUE)
    /\ UNCHANGED <<hookVars, passes>>

\* the key is not in COMMAND_LIST: next key
Ignore ==
    /\ impl = "core"
    /\ pc = "loop"
    /\ idx <= Len(batch)
    /\ ~IsCommand(Cur.key)
    /\ idx' = idx + 1
    /\ outcome' = Append(outcome, "ignored")
    /\ UNCHANGED <<impl, cache, speed, batch, gopts, pc, item, calls, status,
                   rerun, cache0, lastItems, speed0,
                   hookVars, passes>>

\* cache hit or empty item list: continue
Skip ==
    /\ impl = "core"
    /\ pc = "loop"
    /\ idx <= Len(batch)
    /\ IsCommand(Cur.key)
    /\ ShouldSkip(OptCache(Opts), CacheGet(cache, Cur.key), Content, Cur.items)
    /\ idx' = idx + 1
    /\ outcome' = Append(outcome, "skipped")
    /\ UNCHANGED <<impl, cache, speed, batch, gopts, pc, item, calls, status,
                   rerun, cache0, lastItems, speed0,
                   hookVars, passes>>

\* await masterCluster({jobs, cpu, type}, opts)
StartDispatch ==
    /\ impl = "core"
    /\ pc = "loop"
    /\ idx <= Len(batch)
    /\ IsCommand(Cur.key)
    /\ ~ShouldSkip(OptCache(Opts), CacheGet(cache, Cur.key), Content, Cur.items)
    /\ UseParallel(gopts, Opts)
    /\ calls' = Append(calls,
                       DispatchCall(Cur.key, Cur.items, gopts.parallel, Opts))
    /\ pc' = "dispatch"
    /\ UNCHANGED <<impl, cache, speed, batch, gopts, idx, item, outcome,
                   status, rerun, cache0, lastItems, speed0,
                   hookVars, passes>>

\* the command is through: the cache write of line 44 and the next key
Finish(cs) ==
    /\ calls' = cs
    /\ cache' = CacheWrite(cache, Cur.key, Content, OptCache(Opts))
    /\ lastItems' = IF Opts.cache \in {"absent", "true"}
                    THEN CacheSet(lastItems, Cur.key, Cur.items)
                    ELSE lastItems
    /\ idx' = idx + 1
    /\ item' = 0
    /\ outcome' = Append(outcome, "ran")
    /\ pc' = "loop"
    /\ UNCHANGED <<impl, speed, batch, gopts, status, rerun, cache0, speed0,
                   hookVars, passes>>

\* the for-of loop over the items is entered: await
\* commander[command](item, opts) for the first item (a list with no item
\* would leave the loop at once)
StartItem ==
    /\ impl = "core"
    /\ pc = "loop"
    /\ idx <= Len(batch)
    /\ IsCommand(Cur.key)
    /\ ~ShouldSkip(OptCache(Opts), CacheGet(cache, Cur.key), Content, Cur.items)
    /\ ~UseParallel(gopts, Opts)
    /\ IF MoreItems(0, Cur.items)
       THEN /\ item' = 1
            /\ calls' = Append(calls,
                               ExecCall(Cur.key, ItemAt(Cur.items, 1), Opts))
            /\ pc' = "exec"
            /\ UNCHANGED <<impl, cache, speed, batch, gopts, idx, outcome,
                           status, rerun, cache0, lastItems, speed0,
                   hookVars, passes>>
       ELSE Finish(calls)

\* the executor call resolves: the next item, or the command is through
ItemResolve ==
    /\ impl = "core"
    /\ pc = "exec"
    /\ IF MoreItems(item, Cur.items)
       THEN /\ item' = item + 1
            /\ calls' = Append(Settle(calls, "done"),
                               ExecCall(Cur.key, ItemAt(Cur.items, item + 1),
                                        Opts))
            /\ UNCHANGED <<impl, cache, speed, batch, gopts, pc, idx, outcome,
                           status, rerun, cache0, lastItems, speed0,
                   hookVars, passes>>
       ELSE Finish(Settle(calls, "done"))

\* the call rejects: the exception leaves handleCommand
Reject ==
    /\ calls' = Settle(calls, "failed")
    /\ pc' = AfterReject(idx).pc
    /\ idx' = AfterReject(idx).idx
    /\ status' = AfterReject(idx).status
    /\ outcome' = Append(outcome, "failed")
    /\ item' = 0
    /\ UNCHANGED <<impl, cache, speed, batch, gopts, rerun, cache0,
                   lastItems, speed0,
                   hookVars, passes>>

ItemReject ==
    /\ impl = "core"
    /\ pc = "exec"
    /\ Reject

\* masterCluster resolves
DispatchResolve ==
    /\ impl = "core"
    /\ pc = "dispatch"
    /\ Finish(Settle(calls, "done"))

\* masterCluster rejects
DispatchReject ==
    /\ impl = "core"
    /\ pc = "dispatch"
    /\ Reject

\* the for-in loop is through: the promise of handleCommand resolves
Return ==
    /\ pc = "loop"
    /\ idx > Len(batch)
    /\ pc' = "done"
    /\ status' = "ok"
    /\ UNCHANGED <<impl, cache, speed, batch, gopts, idx, item, calls,
                   outcome, rerun, cache0, lastItems, speed0,
                   hookVars, passes>>

\* the finished run and its arguments are dropped
ReleaseRun ==
    /\ pc' = "idle"
    /\ batch' = <<>>
    /\ gopts' = IF impl = "core" THEN NoOptions ELSE gopts
    /\ idx' = 1
    /\ item' = 0
    /\ calls' = <<>>
    /\ outcome' = <<>>
    /\ status' = "none"
    /\ rerun' = FALSE
    /\ cache0' = cache
    /\ speed0' = speed
    /\ UNCHANGED <<impl, cache, speed, lastItems>>

\* the caller is done with the finished run and its arguments
Release ==
    /\ pc = "done"
    /\ ReleaseRun
    /\ UNCHANGED <<hookVars, passes>>

\* ------------------------------------------- the webpack plugin orchestrator
\* if (parallel), with parallel taken from this.options.options
PluginUseParallel(g, opts) == Truthy(g.parallel)

\* this.handleCommand(commands) is called
PluginCall ==
    /\ impl = "plugin"
    /\ pc = "idle"
    /\ speed < MaxSpeed
    /\ \E b \in Batches : StartRun(b, gopts, FALSE)
    /\ UNCHANGED <<hookVars, passes>>

PluginIgnore ==
    /\ impl = "plugin"
    /\ pc = "loop"
    /\ idx <= Len(batch)
    /\ ~IsCommand(Cur.key)
    /\ idx' = idx + 1
    /\ outcome' = Append(outcome, "ignored")
    /\ UNCHANGED <<impl, cache, speed, batch, gopts, pc, item, calls, status,
                   rerun, cache0, lastItems, speed0,
                   hookVars, passes>>

\* let { items = [], options = {} } = commands[command] with a null entry:
\* a TypeError leaves handleCommand
PluginThrow ==
    /\ impl = "plugin"
    /\ pc = "loop"
    /\ idx <= Len(batch)
    /\ IsCommand(Cur.key)
    /\ Cur.value = "null"
    /\ pc' = AfterReject(idx).pc
    /\ idx' = AfterReject(idx).idx
    /\ status' = AfterReject(idx).status
    /\ outcome' = Append(outcome, "threw")
    /\ UNCHANGED <<impl, cache, speed, batch, gopts, item, calls, rerun,
                   cache0, lastItems, speed0, hookVars, passes>>

\* await masterCluster({jobs, cpu, type}, opts), whatever the item list
PluginStartDispatch ==
    /\ impl = "plugin"
    /\ pc = "loop"
    /\ idx <= Len(batch)
    /\ IsCommand(Cur.key)
    /\ Cur.value # "null"
    /\ PluginUseParallel(gopts, Opts)
    /\ calls' = Append(calls,
                       DispatchCall(Cur.key, Cur.items, gopts.parallel, Opts))
    /\ pc' = "dispatch"
    /\ UNCHANGED <<impl, cache, speed, batch, gopts, idx, item, outcome,
                   status, rerun, cache0, lastItems, speed0,
                   hookVars, passes>>

\* the for-of loop over the items: the first executor call, or no item
PluginStartItem ==
    /\ impl = "plugin"
    /\ pc = "loop"
    /\ idx <= Len(batch)
    /\ IsCommand(Cur.key)
    /\ Cur.value # "null"
    /\ ~PluginUseParallel(gopts, Opts)
    /\ IF MoreItems(0, Cur.items)
       THEN /\ item' = 1
            /\ calls' = Append(calls,
                               ExecCall(Cur.key, ItemAt(Cur.items, 1), Opts))
            /\ pc' = "exec"
            /\ UNCHANGED <<idx, outcome>>
       ELSE /\ idx' = idx + 1
            /\ outcome' = Append(outcome, "ran")
            /\ UNCHANGED <<item, calls, pc>>
    /\ UNCHANGED <<impl, cache, speed, batch, gopts, status, rerun, cache0,
                   lastItems, speed0,
                   hookVars, passes>>

\* the executor call resolves: setSpeed(1), then the next item or key
PluginItemResolve ==
    /\ impl = "plugin"
    /\ pc = "exec"
    /\ speed' = SetSpeed(speed, gopts, 1)
    /\ IF MoreItems(item, Cur.items)
       THEN /\ item' = item + 1
            /\ calls' = Append(Settle(calls, "done"),
                               ExecCall(Cur.key, ItemAt(Cur.items, item + 1),
                                        Opts))
            /\ UNCHANGED <<pc, idx, outcome>>
       ELSE /\ calls' = Settle(calls, "done")
            /\ item' = 0
            /\ idx' = idx + 1
            /\ outcome' = Append(outcome, "ran")
            /\ pc' = "loop"
    /\ UNCHANGED <<impl, cache, batch, gopts, status, rerun, cache0,
                   lastItems, speed0,
                   hookVars, passes>>

PluginItemReject ==
    /\ impl = "plugin"
    /\ pc = "exec"
    /\ Reject

\* masterCluster resolves with completedNum: setSpeed(completedNum)
PluginDispatchResolve ==
    /\ impl = "plugin"
    /\ pc = "dispatch"
    /\ speed' = SetSpeed(speed, gopts, MasterClusterResult(Cur.items))
    /\ calls' = Settle(calls, "done")
    /\ idx' = idx + 1
    /\ outcome' = Append(outcome, "ran")
    /\ pc' = "loop"
    /\ UNCHANGED <<impl, cache, batch, gopts, item, status, rerun, cache0,
                   lastItems, speed0,
                   hookVars, passes>>

PluginDispatchReject ==
    /\ impl = "plugin"
    /\ pc = "dispatch"
    /\ Reject

\* ------------------------------------------------------- specification
Next ==
    \/ Call
    \/ Rerun
    \/ Ignore
    \/ Skip
    \/ StartDispatch
    \/ StartItem
    \/ ItemResolve
    \/ ItemReject
    \/ DispatchResolve
    \/ DispatchReject
    \/ PluginCall
    \/ PluginIgnore
    \/ PluginStartDispatch
    \/ PluginStartItem
    \/ PluginItemResolve
    \/ PluginItemReject
    \/ PluginDispatchResolve
    \/ PluginDispatchReject
    \/ Return
    \/ Release

Spec == Init /\ [][Next]_vars

\* --------------------------- batches with null entries and reordered keys
EdgeCall ==
    /\ impl = "core"
    /\ pc = "idle"
    /\ \E b \in EdgeBatches, g \in GlobalOptions : StartRun(b, g, FALSE)
    /\ UNCHANGED <<hookVars, passes>>

EdgePluginCall ==
    /\ impl = "plugin"
    /\ pc = "idle"
    /\ speed < MaxSpeed
    /\ \E b \in EdgeBatches : StartRun(b, gopts, FALSE)
    /\ UNCHANGED <<hookVars, passes>>

EdgeNext ==
    \/ EdgeCall
    \/ Rerun
    \/ Ignore
    \/ Skip
    \/ StartDispatch
    \/ StartItem
    \/ ItemResolve
    \/ ItemReject
    \/ DispatchResolve
    \/ DispatchReject
    \/ EdgePluginCall
    \/ PluginIgnore
    \/ PluginThrow
    \/ PluginStartDispatch
    \/ PluginStartItem
    \/ PluginItemResolve
    \/ PluginItemReject
    \/ PluginDispatchResolve
    \/ PluginDispatchReject
    \/ Return
    \/ Release

EdgeSpec == Init /\ [][EdgeNext]_vars

\* ------------------------------------------------- the plugin's hooks
\* most firings of hooks by the compiler
MaxFirings == 2

\* if (!registerName) hook.registerName = NAMESPACE_REGISTER_NAME + hookName
WithRegisterName(hook) ==
    IF hook.registerName = <<>>
    THEN [hook EXCEPT !.registerName = <<"REGISTER_", hook.hookName>>]
    ELSE hook

\* the for-in loop of translateHooks over events
RECURSIVE FromEvents(_)
FromEvents(events) ==
    IF events = <<>> THEN <<>>
    ELSE LET e == Head(events) IN
         (IF e.event \in BUILTIN_EVENT_NAMES /\ e.value # "null"
          THEN <<[hookType |-> BUILTIN_EVENTS_MAP[e.event].hookType,
                  hookName |-> BUILTIN_EVENTS_MAP[e.event].hookName,
                  registerName |-> BUILTIN_EVENTS_MAP[e.event].registerName,
                  commands |-> e.commands]>>
          ELSE <<>>) \o FromEvents(Tail(events))

TranslateHooks(cfg) ==
    IF Len(cfg.customHooks) > 0
    THEN [i \in 1..Len(cfg.customHooks) |->
             WithRegisterName(cfg.customHooks[i])]
    ELSE FromEvents(cfg.events)

\* the inner loop of countTotalTasks: the items of the recognized commands
RECURSIVE CountItems(_)
CountItems(commands) ==
    IF commands = <<>> THEN 0
    ELSE (IF IsCommand(Head(commands).key)
          THEN Len(Head(commands).items) ELSE 0) + CountItems(Tail(commands))

RECURSIVE CountTotalTasks(_)
CountTotalTasks(options) ==
    IF options = <<>> THEN 0
    ELSE (IF Head(options).hookType \in HookTypes
          THEN CountItems(Head(options).commands) ELSE 0)
         + CountTotalTasks(Tail(options))

\* the hooks apply taps: the type is one of the plugin's, and
\* compiler.hooks[hookName][hookType](...) does not throw
Tapped(options) ==
    {i \in 1..Len(options) :
        /\ options[i].hookType \in HookTypes
        /\ options[i].hookName \in CompilerHooks}

\* a plugin object right after its constructor
HookInit ==
    /\ impl = "plugin"
    /\ cache = EmptyCache
    /\ speed = 0
    /\ batch = <<>>
    /\ gopts \in PluginOptions
    /\ pc = "idle"
    /\ idx = 1
    /\ item = 0
    /\ calls = <<>>
    /\ outcome = <<>>
    /\ status = "none"
    /\ rerun = FALSE
    /\ cache0 = EmptyCache
    /\ lastItems = EmptyCache
    /\ speed0 = 0
    /\ config \in PluginConfigs
    /\ hooks = <<>>
    /\ registered = {}
    /\ total = 0
    /\ cur = 0
    /\ host = "new"
    /\ fired = <<>>
    /\ succeeded = {}
    /\ passes = <<>>

runVars ==
    <<impl, cache, speed, batch, gopts, pc, idx, item, calls, outcome,
      status, rerun, cache0, lastItems, speed0>>

\* apply(compiler): the progress bar gets its total, the hooks are tapped
Apply ==
    /\ host = "new"
    /\ hooks' = TranslateHooks(config)
    /\ total' = CountTotalTasks(hooks')
    /\ registered' = Tapped(hooks')
    /\ fired' = [i \in 1..Len(hooks') |-> 0]
    /\ host' = "idle"
    /\ UNCHANGED <<runVars, config, cur, succeeded, passes>>

RECURSIVE SumSeq(_)
SumSeq(q) == IF q = <<>> THEN 0 ELSE Head(q) + SumSeq(Tail(q))

HookType == hooks[cur].hookType

\* the compiler fires a hook: the callback the plugin built for it is
\* called and calls this.handleCommand(commands)
Fire ==
    /\ host = "idle"
    /\ pc = "idle"
    /\ SumSeq(fired) < MaxFirings
    /\ \E h \in registered :
          /\ cur' = h
          /\ fired' = [fired EXCEPT ![h] = @ + 1]
          /\ StartRun(hooks[h].commands, gopts, FALSE)
    /\ host' = "waiting"
    /\ UNCHANGED <<config, hooks, registered, total, succeeded, passes>>

\* the callback of a tap hook has been called and has not returned yet
TapPending == cur # 0 /\ HookType = "tap" /\ host = "waiting"

\* tabCallback: () => this.handleCommand(commands) returns the promise of
\* handleCommand when the run is at its first await, or is through
TapReturn ==
    /\ TapPending
    /\ pc \in {"exec", "dispatch", "done"}
    /\ host' = "signalled"
    /\ UNCHANGED <<runVars, config, hooks, registered, total, cur, fired,
                   succeeded, passes>>

\* handleCommand ran synchronously until its first await: nothing the run
\* waits for settles before the callback has returned to the compiler
HookItemResolve == ~TapPending /\ PluginItemResolve
HookItemReject == ~TapPending /\ PluginItemReject
HookDispatchResolve == ~TapPending /\ PluginDispatchResolve
HookDispatchReject == ~TapPending /\ PluginDispatchReject

\* a callback that goes on without the await
AwaitedAtOnce(p, st) == TRUE

\* await this.handleCommand(commands) goes on: the promise has resolved
Awaited(p, st) == p = "done" /\ st = "ok"

\* tapAsyncCallback: await this.handleCommand(commands); callback()
TapAsyncCallback ==
    /\ cur # 0
    /\ HookType = "tapAsync"
    /\ host = "waiting"
    /\ Awaited(pc, status)
    /\ host' = "signalled"
    /\ UNCHANGED <<runVars, config, hooks, registered, total, cur, fired,
                   succeeded, passes>>

\* tapAsyncCallback: the await throws, the async function ends with a
\* rejected promise nobody holds, callback() is not reached
TapAsyncThrow ==
    /\ cur # 0
    /\ HookType = "tapAsync"
    /\ host = "waiting"
    /\ pc = "done"
    /\ status = "failed"
    /\ host' = "left"
    /\ UNCHANGED <<runVars, config, hooks, registered, total, cur, fired,
                   succeeded, passes>>

\* tapPromiseCallback: the promise the compiler awaits resolves
TapPromiseResolve ==
    /\ cur # 0
    /\ HookType = "tapPromise"
    /\ host = "waiting"
    /\ Awaited(pc, status)
    /\ host' = "signalled"
    /\ UNCHANGED <<runVars, config, hooks, registered, total, cur, fired,
                   succeeded, passes>>

\* tapPromiseCallback: the promise the compiler awaits rejects
TapPromiseReject ==
    /\ cur # 0
    /\ HookType = "tapPromise"
    /\ host = "waiting"
    /\ pc = "done"
    /\ status = "failed"
    /\ host' = "rejected"
    /\ UNCHANGED <<runVars, config, hooks, registered, total, cur, fired,
                   succeeded, passes>>

\* the compiler has its answer and the run is over: it may fire again
HookRelease ==
    /\ cur # 0
    /\ pc = "done"
    /\ host \in {"signalled", "rejected"}
    /\ ReleaseRun
    /\ succeeded' = IF status = "ok" THEN succeeded \cup {cur} ELSE succeeded
    /\ cur' = 0
    /\ host' = "idle"
    /\ UNCHANGED <<config, hooks, registered, total, fired, passes>>

HookNext ==
    \/ Apply
    \/ Fire
    \/ PluginIgnore
    \/ PluginStartDispatch
    \/ PluginStartItem
    \/ HookItemResolve
    \/ HookItemReject
    \/ HookDispatchResolve
    \/ HookDispatchReject
    \/ Return
    \/ TapReturn
    \/ TapAsyncCallback
    \/ TapAsyncThrow
    \/ TapPromiseResolve
    \/ TapPromiseReject
    \/ HookRelease

HookSpec == HookInit /\ [][HookNext]_vars

\* ------------------------------ overlapping runs of the cached orchestrator
\* handleCommand called again while the promise of an earlier call is
\* pending.  JavaScript runs one run at a time from an await to the next:
\* passes.turn is the run that is executing, "none" between such slices;
\* passes.run holds the position of each run.  The runs share cacheSingle().
Passes == {"p", "q"}

IdlePass ==
    [pc |-> "idle", batch |-> <<>>, gopts |-> NoOptions, idx |-> 1,
     item |-> 0, calls |-> <<>>, status |-> "none"]

\* the commands of an overlapping run
OverlapEntries ==
    [key : {"copy"}, value : {"object"}, items : SeqsUpTo({JobA}, MaxItems),
     options : {NoOptions, [NoOptions EXCEPT !.cache = "false"]}]
      \cup [key : {"del"}, value : {"object"}, items : {<<JobB>>},
            options : {NoOptions}]
      \cup [key : {"chmod"}, value : {"object"}, items : {<<JobA>>},
            options : {NoOptions}]

OverlapBatches == BatchesFrom(OverlapEntries, BatchKeys, MaxCmds)

OverlapInit ==
    /\ impl = "core"
    /\ cache = EmptyCache
    /\ speed = 0
    /\ batch = <<>>
    /\ gopts = NoOptions
    /\ pc = "idle"
    /\ idx = 1
    /\ item = 0
    /\ calls = <<>>
    /\ outcome = <<>>
    /\ status = "none"
    /\ rerun = FALSE
    /\ cache0 = EmptyCache
    /\ lastItems = EmptyCache
    /\ speed0 = 0
    /\ NoPlugin
    /\ passes = [turn |-> "none", run |-> [p \in Passes |-> IdlePass]]

PassCur(r) == EntryAt(r.batch, r.idx)
PassOpts(r) == Merge(r.gopts, PassCur(r).options)
PassContent(r) == Stringify(PassCur(r).items)

\* the run p goes on as r, and keeps executing or comes to an await
PassStep(p, r, turn) ==
    /\ passes' = [turn |-> turn, run |-> [passes.run EXCEPT ![p] = r]]
    /\ UNCHANGED <<impl, speed, batch, gopts, pc, idx, item, calls, outcome,
                   status, rerun, cache0, lastItems, speed0, hookVars>>

\* handleCommand(commands, globalOptions) is called
PassCall ==
    /\ passes.turn = "none"
    /\ \E p \in Passes, b \in OverlapBatches,
          g \in {NoOptions, [NoOptions EXCEPT !.parallel = "2"]} :
          /\ passes.run[p].pc = "idle"
          /\ PassStep(p, [IdlePass EXCEPT !.pc = "loop", !.batch = b,
                                          !.gopts = g, !.status = "running"],
                      p)
    /\ UNCHANGED cache

\* the run whose slice is executing, at a key of its for-in loop
AtKey(p) ==
    /\ passes.turn = p
    /\ passes.run[p].pc = "loop"
    /\ passes.run[p].idx <= Len(passes.run[p].batch)

PassIgnore ==
    \E p \in Passes :
        LET r == passes.run[p] IN
        /\ AtKey(p)
        /\ ~IsCommand(PassCur(r).key)
        /\ PassStep(p, [r EXCEPT !.idx = @ + 1], p)
        /\ UNCHANGED cache

\* the read of the cache entry decides: skip
PassSkip ==
    \E p \in Passes :
        LET r == passes.run[p] IN
        /\ AtKey(p)
        /\ IsCommand(PassCur(r).key)
        /\ ShouldSkip(OptCache(PassOpts(r)), CacheGet(cache, PassCur(r).key),
                      PassContent(r), PassCur(r).items)
        /\ PassStep(p, [r EXCEPT !.idx = @ + 1], p)
        /\ UNCHANGED cache

\* the read of the cache entry decides: run; await masterCluster(...)
PassStartDispatch ==
    \E p \in Passes :
        LET r == passes.run[p] IN
        /\ AtKey(p)
        /\ IsCommand(PassCur(r).key)
        /\ ~ShouldSkip(OptCache(PassOpts(r)), CacheGet(cache, PassCur(r).key),
                       PassContent(r), PassCur(r).items)
        /\ UseParallel(r.gopts, PassOpts(r))
        /\ PassStep(p, [r EXCEPT !.pc = "dispatch",
                                 !.calls = Append(@,
                                     DispatchCall(PassCur(r).key,
                                                  PassCur(r).items,
                                                  r.gopts.parallel,
                                                  PassOpts(r)))],
                    "none")
        /\ UNCHANGED cache

\* the read of the cache entry decides: run; await commander[command](item)
PassStartItem ==
    \E p \in Passes :
        LET r == passes.run[p] IN
        /\ AtKey(p)
        /\ IsCommand(PassCur(r).key)
        /\ ~ShouldSkip(OptCache(PassOpts(r)), CacheGet(cache, PassCur(r).key),
                       PassContent(r), PassCur(r).items)
        /\ ~UseParallel(r.gopts, PassOpts(r))
        /\ PassStep(p, [r EXCEPT !.pc = "exec", !.item = 1,
                                 !.calls = Append(@,
                                     ExecCall(PassCur(r).key,
                                              ItemAt(PassCur(r).items, 1),
                                              PassOpts(r)))],
                    "none")
        /\ UNCHANGED cache

\* the awaited call of p has resolved and all items are through: the cache
\* write of line 44, then the next key
PassFinish(p, r) ==
    /\ cache' = CacheWrite(cache, PassCur(r).key, PassContent(r),
                           OptCache(PassOpts(r)))
    /\ PassStep(p, [r EXCEPT !.pc = "loop", !.idx = @ + 1, !.item = 0,
                             !.calls = Settle(@, "done")], p)

PassItemResolve ==
    /\ passes.turn = "none"
    /\ \E p \in Passes :
          LET r == passes.run[p] IN
          /\ r.pc = "exec"
          /\ IF MoreItems(r.item, PassCur(r).items)
             THEN /\ PassStep(p, [r EXCEPT !.item = @ + 1,
                                           !.calls = Append(Settle(@, "done"),
                                               ExecCall(PassCur(r).key,
                                                   ItemAt(PassCur(r).items,
                                                          r.item + 1),
                                                   PassOpts(r)))],
                              "none")
                  /\ UNCHANGED cache
             ELSE PassFinish(p, r)

PassDispatchResolve ==
    /\ passes.turn = "none"
    /\ \E p \in Passes :
          /\ passes.run[p].pc = "dispatch"
          /\ PassFinish(p, passes.run[p])

\* the awaited call rejects: the exception leaves handleCommand
PassReject ==
    /\ passes.turn = "none"
    /\ \E p \in Passes :
          LET r == passes.run[p] IN
          /\ r.pc \in {"exec", "dispatch"}
          /\ PassStep(p, [r EXCEPT !.pc = AfterReject(r.idx).pc,
                                   !.status = AfterReject(r.idx).status,
                                   !.calls = Settle(@, "failed")],
                      "none")
    /\ UNCHANGED cache

\* the for-in loop is through: the promise of the run resolves
PassReturn ==
    \E p \in Passes :
        LET r == passes.run[p] IN
        /\ passes.turn = p
        /\ r.pc = "loop"
        /\ r.idx > Len(r.batch)
        /\ PassStep(p, [r EXCEPT !.pc = "done", !.status = "ok"], "none")
        /\ UNCHANGED cache

OverlapNext ==
    \/ PassCall
    \/ PassIgnore
    \/ PassSkip
    \/ PassStartDispatch
    \/ PassStartItem
    \/ PassItemResolve
    \/ PassDispatchResolve
    \/ PassReject
    \/ PassReturn

OverlapSpec == OverlapInit /\ [][OverlapNext]_vars

\* ------------------------------------------------------------- claims
KeyAt(i) == batch[i].key
ItemsAt(i) == batch[i].items
OptsAt(i) == Merge(gopts, batch[i].options)
CallsOf(k) == SelectSeq(calls, LAMBDA c : c.cmd = k)
Visited == 1..Len(outcome)

\* the calls a finished or failed command left: in sequential mode one
\* executor call per item, in list order, from the first item on, every call
\* before the last one completed; in parallel mode one dispatcher call with
\* the whole list
Executed(i) ==
    LET cs == CallsOf(KeyAt(i)) IN
    IF Truthy(gopts.parallel)
    THEN /\ Len(cs) = 1
         /\ cs[1].kind = "dispatch"
         /\ cs[1].jobs = ItemsAt(i)
         /\ outcome[i] = "ran" => cs[1].st = "done"
    ELSE /\ Len(cs) \in 1..Len(ItemsAt(i))
         /\ \A j \in 1..Len(cs) :
               /\ cs[j].kind = "exec"
               /\ cs[j].jobs = <<ItemsAt(i)[j]>>
               /\ j < Len(cs) => cs[j].st = "done"
         /\ outcome[i] = "ran" =>
               /\ Len(cs) = Len(ItemsAt(i))
               /\ cs[Len(cs)].st = "done"

\* C1: a run that repeats the batch and the options of a run that has just
\* completed without failure makes no executor call and no dispatcher call
\* for any command whose merged options leave the cache enabled.
C1_IdempotentUnderCache ==
    (impl = "core" /\ rerun) =>
        \A n \in 1..Len(calls) : ~OptCache(calls[n].opts)

\* the repeated run is over, it skipped a copy of two items with the cache
\* enabled that the first run had to execute, and it made no call
C1_Witness ==
    /\ impl = "core" /\ rerun /\ pc = "done" /\ calls = <<>>
    /\ \E i \in 1..Len(batch) :
          /\ KeyAt(i) = "copy"
          /\ Len(ItemsAt(i)) = 2
          /\ OptCache(OptsAt(i))
          /\ outcome[i] = "skipped"
          /\ CacheGet(cache0, "copy") = <<Stringify(ItemsAt(i))>>

\* C2 as stated: a recognized command with a non-empty item list that
\* differs from the list fingerprinted in the cache, or whose merged options
\* have cache = false, is executed and not skipped.
C2_AnyDifferenceInvalidates ==
    [][(/\ impl = "core" /\ pc = "loop" /\ idx <= Len(batch)
        /\ IsCommand(Cur.key)
        /\ Len(Cur.items) > 0
        /\ \/ ~OptCache(Opts)
           \/ CacheGet(lastItems, Cur.key) # <<Cur.items>>)
       => pc' \in {"exec", "dispatch"}]_vars

\* C2 amended: a recognized command with a non-empty item list whose
\* serialization differs from the fingerprint in the cache, or whose merged
\* options have cache = false, is not skipped: the executor is called for
\* its items in list order (every item once unless a call fails), or the
\* dispatcher is called once with the whole list.
C2_SerializedDifferenceInvalidates ==
    impl = "core" =>
        \A i \in Visited :
            (/\ IsCommand(KeyAt(i))
             /\ Len(ItemsAt(i)) > 0
             /\ \/ ~OptCache(OptsAt(i))
                \/ CacheGet(cache0, KeyAt(i)) # <<Stringify(ItemsAt(i))>>)
            => /\ outcome[i] \in {"ran", "failed"}
               /\ Executed(i)

\* a copy whose two items were cached in the other order was run again in
\* full, and in the same batch a del was run although its list is the
\* cached one, because cache = false
C2_Witness ==
    /\ impl = "core" /\ pc = "done" /\ status = "ok"
    /\ \E i \in Visited :
          /\ KeyAt(i) = "copy"
          /\ ItemsAt(i) = <<JobA, JobB>>
          /\ OptCache(OptsAt(i))
          /\ CacheGet(cache0, "copy") = <<Stringify(<<JobB, JobA>>)>>
          /\ outcome[i] = "ran"
          /\ Len(CallsOf("copy")) = 2
    /\ \E i \in Visited :
          /\ KeyAt(i) = "del"
          /\ ~OptCache(OptsAt(i))
          /\ CacheGet(cache0, "del") = <<Stringify(ItemsAt(i))>>
          /\ outcome[i] = "ran"

\* C3: in the cached orchestrator a recognized command with an empty item
\* list is skipped: it gets no executor call and no dispatcher call and its
\* cache entry stays what it was, whatever the cache flag, the parallel
\* option and the cache hold.
C3_EmptyIsNoop ==
    impl = "core" =>
        \A i \in Visited :
            (IsCommand(KeyAt(i)) /\ ItemsAt(i) = <<>>)
            => /\ outcome[i] = "skipped"
               /\ CallsOf(KeyAt(i)) = <<>>
               /\ CacheGet(cache, KeyAt(i)) = CacheGet(cache0, KeyAt(i))

\* an empty copy was skipped with cache = false, a worker count requested
\* and a fingerprint of another list in the cache
C3_Witness ==
    /\ impl = "core" /\ pc = "done"
    /\ Truthy(gopts.parallel)
    /\ \E i \in Visited :
          /\ KeyAt(i) = "copy"
          /\ ItemsAt(i) = <<>>
          /\ ~OptCache(OptsAt(i))
          /\ outcome[i] = "skipped"
          /\ "copy" \in DOMAIN cache

\* C4: when the global options request no worker count, only executor calls
\* are made, a call starts only when every earlier call has completed, and
\* the calls of a command take its items in list order, each item once.
C4_SequentialOrdering ==
    ~Truthy(gopts.parallel) =>
        /\ \A n \in 1..Len(calls) :
              /\ calls[n].kind = "exec"
              /\ n < Len(calls) => calls[n].st = "done"
        /\ \A i \in 1..Len(batch) :
              LET cs == CallsOf(KeyAt(i)) IN
              /\ Len(cs) <= Len(ItemsAt(i))
              /\ \A j \in 1..Len(cs) : cs[j].jobs = <<ItemsAt(i)[j]>>
              /\ (i \in Visited /\ outcome[i] = "ran") =>
                    /\ Len(cs) = Len(ItemsAt(i))
                    /\ \A j \in 1..Len(cs) : cs[j].st = "done"

\* the second of two different items is in flight, the first has completed
C4_Witness ==
    /\ pc = "exec" /\ item = 2
    /\ Cur.items = <<JobB, JobA>>
    /\ Len(calls) = 2
    /\ calls[1].jobs = <<JobB>> /\ calls[1].st = "done"
    /\ calls[2].jobs = <<JobA>> /\ calls[2].st = "inflight"

\* C5: a batch entry whose key is not a command name is passed over: no
\* executor or dispatcher call carries its key, no cache entry is written
\* under it, a run fails only because a call failed, and a run that
\* succeeds has processed every recognized command of the batch.
C5_UnknownCommandFiltered ==
    /\ \A i \in Visited : outcome[i] = "ignored" <=> ~IsCommand(KeyAt(i))
    /\ \A n \in 1..Len(calls) : calls[n].cmd \in COMMAND_LIST
    /\ DOMAIN cache \subseteq COMMAND_LIST
    /\ status = "failed" =>
          /\ calls # <<>>
          /\ calls[Len(calls)].st = "failed"
    /\ status = "ok" =>
          /\ Len(outcome) = Len(batch)
          /\ \A i \in Visited :
                IsCommand(KeyAt(i)) => outcome[i] \in {"ran", "skipped"}

\* a run succeeded on a batch whose unknown key comes first and whose copy
\* was executed after it
C5_Witness ==
    /\ pc = "done" /\ status = "ok"
    /\ Len(batch) = 2
    /\ KeyAt(1) = "chmod" /\ KeyAt(2) = "copy"
    /\ outcome = <<"ignored", "ran">>
    /\ Len(calls) = Len(ItemsAt(2))

\* C6: when an executor call or the dispatcher fails, the cache entry of the
\* command is what it was when the run started; a cache entry changes only
\* once every item of its command has completed without failure, and then
\* to the fingerprint of these items.
C6_NoPartialCacheUpdate ==
    impl = "core" =>
        /\ status = "failed" =>
              CacheGet(cache, calls[Len(calls)].cmd)
                  = CacheGet(cache0, calls[Len(calls)].cmd)
        /\ \A k \in COMMAND_LIST :
              CacheGet(cache, k) # CacheGet(cache0, k) =>
                  \E i \in Visited :
                      /\ KeyAt(i) = k
                      /\ outcome[i] = "ran"
                      /\ Executed(i)
                      /\ CacheGet(cache, k) = <<Stringify(ItemsAt(i))>>

\* the second item of a copy failed after the first had completed, and the
\* cache still holds the fingerprint of another list
C6_Witness ==
    /\ impl = "core" /\ status = "failed"
    /\ Len(calls) = 2
    /\ calls[1].st = "done" /\ calls[2].st = "failed"
    /\ calls[2].cmd = "copy"
    /\ "copy" \in DOMAIN cache
    /\ cache["copy"] # Stringify(batch[idx].items)
    /\ CacheGet(cache, "copy") = CacheGet(cache0, "copy")

\* C7: a failed call is the last call of its run: no call follows for the
\* remaining items of the command or for a later command, no later entry is
\* visited, and the run ends in failure.
C7_FailFast ==
    /\ \A n \in 1..Len(calls) :
          calls[n].st = "failed" =>
              /\ n = Len(calls)
              /\ pc = "done"
              /\ status = "failed"
    /\ status = "failed" =>
          /\ Len(outcome) = idx
          /\ outcome[idx] = "failed"
          /\ calls[Len(calls)].cmd = KeyAt(idx)

\* the first of two items of the first of two commands failed: one call was
\* made and the run ended in failure
C7_Witness ==
    /\ status = "failed" /\ pc = "done"
    /\ ~Truthy(gopts.parallel)
    /\ Len(batch) = 2 /\ idx = 1
    /\ Len(ItemsAt(1)) = 2
    /\ IsCommand(KeyAt(2)) /\ Len(ItemsAt(2)) > 0
    /\ Len(calls) = 1

PosOf(k) == CHOOSE i \in 1..Len(batch) : batch[i].key = k

\* C8: the calls of a run follow the key order of the batch, and a call
\* starts only when every earlier call of the run has completed, so calls
\* of two commands are never in flight together.
C8_CrossCommandOrdering ==
    /\ \A n \in 1..Len(calls) :
          \E i \in 1..Len(batch) : batch[i].key = calls[n].cmd
    /\ \A m, n \in 1..Len(calls) :
          m < n => /\ PosOf(calls[m].cmd) <= PosOf(calls[n].cmd)
                   /\ calls[m].st = "done"
    /\ \A n \in 1..Len(calls) : PosOf(calls[n].cmd) <= idx

\* the dispatcher call of the second command is in flight and the one of
\* the first command has completed
C8_Witness ==
    /\ pc = "dispatch"
    /\ Len(calls) = 2
    /\ calls[1].cmd = KeyAt(1) /\ calls[1].st = "done"
    /\ calls[2].cmd = KeyAt(2) /\ calls[2].st = "inflight"
    /\ KeyAt(1) # KeyAt(2)

\* C9 as stated: once a command has run without being skipped and without
\* failure, its cache entry is the fingerprint of the items just run, also
\* with cache = false.
C9_CacheIsLastRun ==
    impl = "core" =>
        \A i \in Visited :
            outcome[i] = "ran" =>
                CacheGet(cache, KeyAt(i)) = <<Stringify(ItemsAt(i))>>

\* C9 amended: the cache entry of a command is the fingerprint of the item
\* list of its latest run that was not skipped, succeeded and had the cache
\* enabled in its merged options; a command with no such run has no entry.
C9_CacheIsLastCachedRun ==
    impl = "core" =>
        cache = [k \in DOMAIN lastItems |-> Stringify(lastItems[k])]

\* a copy ran with cache = false and the cache kept the fingerprint of
\* another list
C9_Witness ==
    /\ impl = "core" /\ pc = "done" /\ status = "ok"
    /\ \E i \in Visited :
          /\ KeyAt(i) = "copy"
          /\ outcome[i] = "ran"
          /\ ~OptCache(OptsAt(i))
          /\ "copy" \in DOMAIN cache
          /\ cache["copy"] # Stringify(ItemsAt(i))
          /\ cache["copy"] = Stringify(lastItems["copy"])

\* C10 as stated: a call is a dispatcher call exactly when the merged
\* options of its command carry a worker count.
C10_ModeByMergedOptions ==
    \A n \in 1..Len(calls) :
        calls[n].kind = "dispatch" <=> Truthy(calls[n].opts.parallel)

\* C10 amended: a command that is not skipped goes to the dispatcher exactly
\* when the global options carry a truthy parallel, with the whole item
\* list, that worker count and the merged options; otherwise its items go
\* to the executor one by one with the merged options.  The parallel of the
\* command's own options does not select the mode.
C10_ModeByGlobalOptions ==
    /\ \A n \in 1..Len(calls) :
          /\ calls[n].kind = "dispatch" <=> Truthy(gopts.parallel)
          /\ calls[n].opts = OptsAt(PosOf(calls[n].cmd))
          /\ calls[n].kind = "dispatch" =>
                /\ calls[n].cpu = gopts.parallel
                /\ calls[n].jobs = ItemsAt(PosOf(calls[n].cmd))
    /\ \A i \in Visited :
          (outcome[i] \in {"ran", "failed"} /\ Len(ItemsAt(i)) > 0) =>
              CallsOf(KeyAt(i)) # <<>>

\* a copy whose own options ask for two workers ran item by item, because
\* the global options ask for none
C10_Witness ==
    /\ pc = "done" /\ status = "ok"
    /\ ~Truthy(gopts.parallel)
    /\ \E i \in Visited :
          /\ batch[i].options.parallel = "2"
          /\ outcome[i] = "ran"
          /\ Len(CallsOf(KeyAt(i))) = 2
          /\ \A j \in 1..2 : CallsOf(KeyAt(i))[j].kind = "exec"

\* ------------------------------------------------- progress accounting
\* the calls of a sequence that have completed successfully
DoneCalls(cs) == Cardinality({n \in 1..Len(cs) : cs[n].st = "done"})

\* the increments the progress counter got in this run
Increments == speed - speed0

\* the increments of this run that are not due to the calls of command k
IncrementsOf(k) ==
    Increments - DoneCalls(SelectSeq(calls, LAMBDA c : c.cmd # k))

\* C11: in the plugin, with progress enabled and sequential execution, the
\* increments of a run sum at every point to the number of executor calls
\* that have completed successfully (one per completed call, none for a
\* call in flight, failed or not started), and when item i (0-based) of a
\* command fails the increments of that command sum to i.
C11_SequentialProgress ==
    (impl = "plugin" /\ Truthy(gopts.progress) /\ ~Truthy(gopts.parallel)) =>
        /\ Increments = DoneCalls(calls)
        /\ \A n \in 1..Len(calls) : calls[n].kind = "exec"
        /\ status = "failed" =>
              LET cs == CallsOf(KeyAt(idx)) IN
              /\ cs[Len(cs)].st = "failed"
              /\ cs[Len(cs)].jobs = <<ItemsAt(idx)[Len(cs)]>>
              /\ IncrementsOf(KeyAt(idx)) = Len(cs) - 1

\* the second item of a copy failed after the first one completed: the
\* counter got one increment
C11_Witness ==
    /\ impl = "plugin" /\ Truthy(gopts.progress) /\ ~Truthy(gopts.parallel)
    /\ status = "failed"
    /\ KeyAt(idx) = "copy"
    /\ Len(CallsOf("copy")) = 2
    /\ Increments = 1

\* what the dispatcher calls of a sequence that have returned, returned
RECURSIVE Returned(_)
Returned(cs) ==
    IF cs = <<>> THEN 0
    ELSE (IF Head(cs).kind = "dispatch" /\ Head(cs).st = "done"
          THEN MasterClusterResult(Head(cs).jobs) ELSE 0) + Returned(Tail(cs))

\* C12: in the plugin, with parallel execution, a run makes dispatcher
\* calls only, at most one per command; with progress enabled the counter
\* has grown at every point by what the dispatcher calls that have returned,
\* returned (nothing for a call in flight or failed, nothing per item); with
\* progress disabled the counter never grows, in either mode.
C12_ParallelProgress ==
    impl = "plugin" =>
        /\ Truthy(gopts.parallel) =>
              /\ \A n \in 1..Len(calls) :
                    /\ calls[n].kind = "dispatch"
                    /\ \A m \in 1..Len(calls) :
                          calls[m].cmd = calls[n].cmd => m = n
              /\ Truthy(gopts.progress) => Increments = Returned(calls)
        /\ ~Truthy(gopts.progress) => Increments = 0

\* a parallel run with progress is over: the dispatcher returned 2 for a
\* copy of two items and the counter grew by 2
C12_Witness ==
    /\ impl = "plugin" /\ Truthy(gopts.parallel) /\ Truthy(gopts.progress)
    /\ pc = "done" /\ status = "ok"
    /\ \E n \in 1..Len(calls) :
          /\ calls[n].cmd = "copy"
          /\ Len(calls[n].jobs) = 2
          /\ calls[n].st = "done"
    /\ Increments = 2

\* C15: in the plugin, a recognized command with an empty item list gets no
\* executor call and no dispatcher call, in sequential and in parallel mode,
\* and the progress counter is as it was when the command is passed.
C15_PluginSkipsEmpty ==
    impl = "plugin" =>
        \A i \in 1..Len(batch) :
            (IsCommand(KeyAt(i)) /\ ItemsAt(i) = <<>>) =>
                /\ CallsOf(KeyAt(i)) = <<>>
                /\ (Len(batch) = 1 /\ pc = "done") => Increments = 0

\* C18: a step of the cached orchestrator changes no cache entry but that of
\* the command it is processing: the entries of all other commands, among
\* them the commands the batch skips or does not recognize, stay as they
\* are, whether the command runs, is skipped or fails.
C18_CacheFrame ==
    [][\A k \in COMMAND_LIST \cup BatchKeys :
          CacheGet(cache', k) # CacheGet(cache, k) =>
              /\ pc \in {"loop", "exec", "dispatch"}
              /\ idx <= Len(batch)
              /\ k = Cur.key]_vars

\* a batch of a copy and an empty del is over: the copy ran and its entry
\* changed, the del was skipped and the entry an earlier run left for del
\* is as it was
C18_Witness ==
    /\ impl = "core" /\ pc = "done" /\ status = "ok"
    /\ \E i, j \in 1..Len(batch) :
          /\ KeyAt(i) = "copy" /\ outcome[i] = "ran"
          /\ CacheGet(cache, "copy") # CacheGet(cache0, "copy")
          /\ KeyAt(j) = "del" /\ outcome[j] = "skipped"
          /\ CacheGet(cache0, "del") # <<>>
          /\ CacheGet(cache, "del") = CacheGet(cache0, "del")

\* ---------------------------------------------------- malformed entries
\* the batch has a recognized command whose entry is null
Malformed ==
    \E i \in 1..Len(batch) : IsCommand(KeyAt(i)) /\ batch[i].value = "null"

\* C14: a run over a batch with a recognized command whose entry is null
\* makes no executor call and no dispatcher call, whatever the position of
\* that entry, and ends in an error.
C14_NoPartialApplication ==
    Malformed =>
        /\ calls = <<>>
        /\ pc = "done" => status = "failed"

\* ------------------------------------------------------ key order
\* two item lists with the same items in the same order, an item being its
\* keys and their values
SameContent(l1, l2) ==
    /\ Len(l1) = Len(l2)
    /\ \A i \in 1..Len(l1) :
          {l1[i][n] : n \in 1..Len(l1[i])} = {l2[i][n] : n \in 1..Len(l2[i])}

\* C17: when the cached orchestrator comes to a command with the cache
\* enabled whose item list is equal, item by item (same keys and values,
\* same item order), to the list of the run that wrote the command's cache
\* entry, the fingerprint of the list is the cached one (a cache hit),
\* whatever the order of the keys in the job descriptors.
C17_StableKeyOrder ==
    (/\ impl = "core" /\ pc = "loop" /\ idx <= Len(batch)
     /\ IsCommand(Cur.key) /\ OptCache(Opts)
     /\ Cur.key \in DOMAIN lastItems
     /\ SameContent(lastItems[Cur.key], Cur.items)) =>
        CacheGet(cache, Cur.key) = <<Content>>

\* ------------------------------------------------------ hook callbacks
\* the run of the hook's batch is through and all its calls have completed
BatchCompleted ==
    /\ pc = "done" /\ status = "ok"
    /\ \A n \in 1..Len(calls) : calls[n].st = "done"
    /\ \A i \in 1..Len(batch) :
          IsCommand(KeyAt(i)) =>
              Len(CallsOf(KeyAt(i))) =
                  IF Truthy(gopts.parallel) THEN 1 ELSE Len(ItemsAt(i))

\* C13, as stated: whatever the type of the hook (tap, tapAsync or
\* tapPromise), the compiler has the callback's completion signal (the
\* return, the call of callback, the resolved promise) only when every
\* executor and dispatcher call of the hook's batch has completed.
C13_SignalAfterCompletion ==
    (cur # 0 /\ host = "signalled") => BatchCompleted

\* C13, amended: for tapAsync and tapPromise the compiler has the signal
\* only when every call of the batch has completed; the callback of a tap
\* hook returns when the run is at its first await, before any call of the
\* batch has settled.
C13_AsyncSignalAfterCompletion ==
    cur # 0 =>
        /\ (HookType \in {"tapAsync", "tapPromise"} /\ host = "signalled") =>
              BatchCompleted
        /\ (HookType = "tap" /\ host = "waiting") =>
              \A n \in 1..Len(calls) : calls[n].st = "inflight"

\* the callback of a tapAsync hook has called callback() after the two
\* executor calls of its batch completed
C13_Witness ==
    /\ cur # 0 /\ HookType = "tapAsync" /\ host = "signalled"
    /\ Len(calls) = 2
    /\ \A n \in 1..Len(calls) : calls[n].kind = "exec" /\ calls[n].st = "done"

\* C19: when the callback built by tapAsyncCallback is over, whether the
\* run of handleCommand resolved or an executor or dispatcher call failed,
\* it has called the compiler's callback.
C19_CallbackAlwaysCalled ==
    (cur # 0 /\ HookType = "tapAsync" /\ pc = "done" /\ host # "waiting") =>
        host = "signalled"

\* C20: once apply has run, with progress enabled and sequential execution,
\* the progress counter is at most the total apply computed, however often
\* the hooks have fired, and is that total when every tapped hook has fired
\* and its run resolved.
C20_ProgressWithinTotal ==
    (/\ host \notin {"none", "new"}
     /\ Truthy(gopts.progress) /\ ~Truthy(gopts.parallel)) =>
        /\ speed <= total
        /\ (pc = "idle" /\ registered # {} /\ registered \subseteq succeeded) =>
              speed = total

\* ------------------------------------------------------ overlapping runs
\* the run has read the cache entry of the command it is at, has decided to
\* execute it with the cache enabled, and has not written the entry yet
InWindow(p) ==
    /\ passes.run[p].pc \in {"exec", "dispatch"}
    /\ OptCache(PassOpts(passes.run[p]))

\* C16: two overlapping runs of the cached orchestrator are never both
\* between their cache read and their cache write for the same command with
\* the same item list and the cache enabled, that is, they never both
\* execute that item list.
C16_SerializedCacheAccess ==
    \A p, q \in Passes :
        (p # q /\ InWindow(p) /\ InWindow(q)) =>
            ~ /\ PassCur(passes.run[p]).key = PassCur(passes.run[q]).key
              /\ PassCur(passes.run[p]).items = PassCur(passes.run[q]).items

====
